---- MODULE Spec2Model ----
(***************************************************************************)
(* A model of lora_diffusion/dataset.py: the random cutout mask            *)
(* synthesizer (_get_cutout_holes, _generate_random_mask) and the dataset  *)
(* PivotalTuningDatasetCapation (__init__, __len__, __getitem__).          *)
(*                                                                         *)
(* Strings are sequences of one-character strings, so that strip, split,   *)
(* replace, int() and sorted() are computed rather than assumed.  Tensors  *)
(* are records [c, h, w, at] whose field at maps <<channel, y, x>> to the  *)
(* pixel value.                                                            *)
(*                                                                         *)
(* clipseg_mask and color_jitter keep their default False: the CLIPSeg     *)
(* model behind _generate_clipseg_mask, the tokenizer and the image        *)
(* decoding are outside this file.  A picture is the pattern that          *)
(* generates its pixels.                                                   *)
(***************************************************************************)
EXTENDS Integers, Sequences, FiniteSets, TLC

VARIABLES
    cfg,    \* the constructor's arguments
    fs,     \* the filesystem under instance_data_root
    ds,     \* the fields of the dataset object (self)
    pc,     \* position of __init__: "init", "scan", "ready", "failed"
    io,     \* the kinds of filesystem operations performed so far
    scan,   \* the face-segmentation scan loop of __init__
    item,   \* the __getitem__ call in progress or last returned
    cut     \* the _generate_random_mask call in progress or last returned

vars == <<cfg, fs, ds, pc, io, scan, item, cut>>

\* ------------------------------------------------------------------ bounds

\* Largest image height and width that are explored.
MaxDim == 17

\* Largest numeric stem of the image and mask files under the root.
MaxIdx == 1

\* Longest caption line (before its newline) and largest number of entries of
\* a token map that are explored for the prompt.
MaxCaption == 3
MaxTokens == 2

\* Largest index passed to __getitem__.
MaxIndex == 3

\* --------------------------------------------------------- program constants

min_holes == 8
max_holes == 32
min_height == 16
max_height == 128
min_width == 16
max_width == 128

\* An RGB image has three channels (convert("RGB"), ToTensor).
Channels == 3

\* ------------------------------------------------------------------ tensors

Pixels(c, h, w) == (1..c) \X (0..(h - 1)) \X (0..(w - 1))

\* A tensor of c channels, h rows and w columns; at maps each of
\* Pixels(c, h, w) to its value.
Tensor(c, h, w, at) == [c |-> c, h |-> h, w |-> w, at |-> at]

NoTensor == Tensor(0, 0, 0, <<>>)

\* The pixel values of the image with pattern pat: values in {-1, 0, 1}, the
\* range Normalize([0.5], [0.5]) maps to, and not symmetric under a flip.
PatternPixel(pat, c, y, x) == ((x + 2 * y + c + pat) % 3) - 1

PatternImage(pat, c, h, w) ==
    Tensor(c, h, w, [p \in Pixels(c, h, w) |-> PatternPixel(pat, p[1], p[2], p[3])])

\* zeros_like(image[:1])
ZerosLikeFirstChannel(image) ==
    Tensor(1, image.h, image.w, [p \in Pixels(1, image.h, image.w) |-> 0])

\* mask[:, y1:y2, x1:x2] = 1.0
PaintHole(mask, hole) ==
    LET x1 == hole[1]
        y1 == hole[2]
        x2 == hole[3]
        y2 == hole[4]
    IN  Tensor(mask.c, mask.h, mask.w,
               [p \in DOMAIN mask.at |->
                   IF y1 <= p[2] /\ p[2] < y2 /\ x1 <= p[3] /\ p[3] < x2
                   THEN 1 ELSE mask.at[p]])

\* mask.fill_(1.0)
FillOnes(mask) ==
    Tensor(mask.c, mask.h, mask.w, [p \in DOMAIN mask.at |-> 1])

\* Twice the value compared with 1 stands for the comparison with 0.5.
BelowHalf(v) == 2 * v < 1

MaskOut_Inverted(image, mask) ==
    Tensor(image.c, image.h, image.w,
           [p \in DOMAIN image.at |->
               image.at[p] * (IF BelowHalf(mask.at[<<1, p[2], p[3]>>]) THEN 0 ELSE 1)])

\* image * (mask < 0.5): the one-channel mask is broadcast over the channels.
MaskOut(image, mask) ==
    Tensor(image.c, image.h, image.w,
           [p \in DOMAIN image.at |->
               image.at[p] * (IF BelowHalf(mask.at[<<1, p[2], p[3]>>]) THEN 1 ELSE 0)])

\* transforms.RandomHorizontalFlip(p=1): the last axis is reversed.
HFlip(t) ==
    Tensor(t.c, t.h, t.w, [p \in DOMAIN t.at |-> t.at[<<p[1], p[2], (t.w - 1) - p[3]>>]])

\* ------------------------------------------------------------------ strings

\* The characters in use, in code point order.
Alphabet ==
    <<"\n", " ", ".", "/", "0", "1", "2", "3", "4", "5", "6", "7", "8", "9",
      "A", "B", "a", "b", "c", "d", "e", "g", "i", "j", "k", "m", "n", "o", "p",
      "r", "s", "t", "x", "y", "{", "}">>

Ord(ch) == CHOOSE i \in 1..Len(Alphabet) : Alphabet[i] = ch

Digits == <<"0", "1", "2", "3", "4", "5", "6", "7", "8", "9">>

IsSpace(ch) == ch \in {" ", "\n"}

\* Python's < on str: by code point, a proper prefix first.
RECURSIVE StrLess(_, _)
StrLess(a, b) ==
    IF b = <<>> THEN FALSE
    ELSE IF a = <<>> THEN TRUE
    ELSE IF a[1] = b[1] THEN StrLess(Tail(a), Tail(b))
    ELSE Ord(a[1]) < Ord(b[1])

\* sorted(lis) for a list of str.
Sorted(lis) == SortSeq(lis, StrLess)

StartsWith(s, k) == Len(k) <= Len(s) /\ SubSeq(s, 1, Len(k)) = k

EndsWith(s, k) == Len(k) <= Len(s) /\ SubSeq(s, Len(s) - Len(k) + 1, Len(s)) = k

RECURSIVE LStrip(_)
LStrip(s) == IF s # <<>> /\ IsSpace(s[1]) THEN LStrip(Tail(s)) ELSE s

RECURSIVE RStrip(_)
RStrip(s) ==
    IF s # <<>> /\ IsSpace(s[Len(s)]) THEN RStrip(SubSeq(s, 1, Len(s) - 1)) ELSE s

\* str.strip(): leading and trailing whitespace removed.
Strip(s) == RStrip(LStrip(s))

\* str.replace(old, new) for a non-empty old: the occurrences are found from
\* the left and do not overlap; what was inserted is not scanned again.
RECURSIVE Replace(_, _, _)
Replace(s, old, new) ==
    IF s = <<>> THEN <<>>
    ELSE IF StartsWith(s, old)
         THEN new \o Replace(SubSeq(s, Len(old) + 1, Len(s)), old, new)
         ELSE <<s[1]>> \o Replace(Tail(s), old, new)

\* s.split(sep)[0] for a one-character sep.
RECURSIVE SplitFirst(_, _)
SplitFirst(s, sep) ==
    IF s = <<>> \/ s[1] = sep THEN <<>> ELSE <<s[1]>> \o SplitFirst(Tail(s), sep)

\* s.split(sep)[-1] for a one-character sep.
RECURSIVE SplitLast(_, _)
SplitLast(s, sep) ==
    IF s = <<>> \/ s[Len(s)] = sep THEN <<>>
    ELSE SplitLast(SubSeq(s, 1, Len(s) - 1), sep) \o <<s[Len(s)]>>

\* The position of the last "." of name, 0 when there is none.
RECURSIVE LastDot(_)
LastDot(name) ==
    IF name = <<>> THEN 0
    ELSE IF name[Len(name)] = "." THEN Len(name)
    ELSE LastDot(SubSeq(name, 1, Len(name) - 1))

\* Path(f).stem: the final component without its last suffix.
Stem(f) ==
    LET name == SplitLast(f, "/")
        dot == LastDot(name)
    IN  IF dot <= 1 THEN name ELSE SubSeq(name, 1, dot - 1)

DigitValue(ch) == (CHOOSE i \in 1..10 : Digits[i] = ch) - 1

\* int(s) for a string of decimal digits.
RECURSIVE IntOf(_)
IntOf(s) ==
    IF s = <<>> THEN 0
    ELSE 10 * IntOf(SubSeq(s, 1, Len(s) - 1)) + DigitValue(s[Len(s)])

\* str(n) for n >= 0.
RECURSIVE StrOf(_)
StrOf(n) ==
    IF n < 10 THEN <<Digits[n + 1]>> ELSE StrOf(n \div 10) \o <<Digits[(n % 10) + 1]>>

\* ------------------------------------------- _generate_random_mask (cutout)

\* An image is described by what generates its pixels: the pattern pat, c
\* channels, h rows and w columns.  ToTensorOf gives its tensor.
ImageOf(pat, c, h, w) == [pat |-> pat, c |-> c, h |-> h, w |-> w]

NoImage == ImageOf(0, 0, 0, 0)

ToTensorOf(img) == PatternImage(img.pat, img.c, img.h, img.w)

\* The locals of _generate_random_mask and _get_cutout_holes.  image is the
\* argument (kept as its description), height and width are the arguments of
\* _get_cutout_holes.  The list holes is kept as the number of iterations
\* still to run (remaining), its last element (hole) and the rectangles
\* painted so far (mask): the result depends on nothing else of it.
CutIdle ==
    [pc |-> "idle", image |-> NoImage, height |-> 0, width |-> 0,
     mask |-> NoTensor, remaining |-> 0, hole |-> <<>>, override |-> FALSE,
     masked_image |-> NoTensor]

\* Entry of _generate_random_mask(image): the mask starts as zeros and
\* _get_cutout_holes is entered with the mask's height and width.
CutEnter(image) ==
    [CutIdle EXCEPT !.pc = "count", !.image = image,
                    !.height = image.h, !.width = image.w,
                    !.mask = ZerosLikeFirstChannel(image)]

\* range(random.randint(min_holes, max_holes)): the number of iterations.
CutoutCount ==
    /\ cut.pc = "count"
    /\ \E n \in min_holes..max_holes :
         cut' = [cut EXCEPT !.pc = "holes", !.remaining = n]
    /\ UNCHANGED <<cfg, fs, ds, pc, io, scan, item>>

\* random.randint(a, b) raises ValueError when b < a.
RandintFails(a, b) == b < a

\* The hole appended for the drawn sizes and corner.
HoleOf(x1, y1, hole_width, hole_height) ==
    <<x1, y1, x1 + hole_width, y1 + hole_height>>

\* The sizes that can be drawn: those whose corner range is empty
\* (random.randint raises), and the others.
FailingSizes(lo, hi, extent) == {s \in lo..hi : RandintFails(0, extent - s)}

FittingSizes(lo, hi, extent) == {s \in lo..hi : ~RandintFails(0, extent - s)}

\* The ValueError leaves the call: its locals are gone, the arguments of the
\* failed _get_cutout_holes call are kept for reference.
CutError == [CutIdle EXCEPT !.pc = "error", !.height = cut.height, !.width = cut.width]

\* One iteration of the loop of _get_cutout_holes that raises: the drawn
\* hole_height exceeds height (line 106), or it does not and the drawn
\* hole_width exceeds width (line 107).
CutoutHoleRaises ==
    /\ cut.pc = "holes"
    /\ cut.remaining > 0
    /\ \/ FailingSizes(min_height, max_height, cut.height) # {}
       \/ /\ FittingSizes(min_height, max_height, cut.height) # {}
          /\ FailingSizes(min_width, max_width, cut.width) # {}
    /\ cut' = CutError
    /\ UNCHANGED <<cfg, fs, ds, pc, io, scan, item>>

\* One iteration of the loop of _get_cutout_holes that appends a hole,
\* together with the iteration of the loop of _generate_random_mask that
\* paints it.
CutoutHole ==
    /\ cut.pc = "holes"
    /\ cut.remaining > 0
    /\ \E hole_height \in FittingSizes(min_height, max_height, cut.height),
          hole_width \in FittingSizes(min_width, max_width, cut.width) :
         /\ \E y1 \in 0..(cut.height - hole_height),
               x1 \in 0..(cut.width - hole_width) :
              LET hole == HoleOf(x1, y1, hole_width, hole_height)
              IN  cut' = [cut EXCEPT !.remaining = @ - 1,
                                     !.hole = hole,
                                     !.mask = PaintHole(cut.mask, hole)]
    /\ UNCHANGED <<cfg, fs, ds, pc, io, scan, item>>

\* After the loops: the full-mask override (random.uniform(0, 1) < 0.25) and
\* the masked image.
CutoutFinish ==
    /\ cut.pc = "holes"
    /\ cut.remaining = 0
    /\ \E override \in BOOLEAN :
         LET mask == IF override THEN FillOnes(cut.mask) ELSE cut.mask
         IN  cut' = [cut EXCEPT !.pc = "done", !.override = override,
                                !.mask = mask,
                                !.masked_image = MaskOut(ToTensorOf(cut.image), mask)]
    /\ UNCHANGED <<cfg, fs, ds, pc, io, scan, item>>

\* ------------------------------------------- the synthesizer on its own

Dims == (min_height - 1)..MaxDim

Patterns == 1..2

\* The widths explored: one below the smallest hole, it, and one above.
Widths == (min_width - 1)..(min_width + 1)

NoValue == [none |-> TRUE]

InitCutout ==
    /\ cfg = NoValue
    /\ fs = NoValue
    /\ ds = NoValue
    /\ pc = "none"
    /\ io = {}
    /\ scan = NoValue
    /\ item = NoValue
    /\ \E h \in Dims, w \in Widths, pat \in Patterns :
         cut = CutEnter(ImageOf(pat, Channels, h, w))

NextCutout == CutoutCount \/ CutoutHoleRaises \/ CutoutHole \/ CutoutFinish

SpecCutout == InitCutout /\ [][NextCutout]_vars

\* --------------------------------------------------------------- filesystem

\* str(instance_data_root)
Root == <<"d">>

PathOf(name) == Root \o <<"/">> \o name

SrcSuffix == <<"s", "r", "c", ".", "j", "p", "g">>
MaskSuffix == <<"m", "a", "s", "k", ".", "p", "n", "g">>
JpgSuffix == <<".", "j", "p", "g">>
PngSuffix == <<".", "p", "n", "g">>
JpegSuffix == <<".", "j", "p", "e", "g">>

\* "{idx}.src.jpg" and "{idx}.mask.png"
SrcName(idx) == StrOf(idx) \o <<".">> \o SrcSuffix
MaskName(idx) == StrOf(idx) \o <<".">> \o MaskSuffix

\* f"{instance_data_root}/{idx}.mask.png"
MaskPath(idx) == PathOf(MaskName(idx))

\* The filesystem: whether the root exists, the image files under it (name
\* to the pattern of its pixels), the lines of caption.txt (<<>> when the
\* file is absent, <<lines>> otherwise) and, for reference, the names of the
\* image files present before the constructor ran (at_start).
PathExists(path) == \E name \in DOMAIN fs.images : PathOf(name) = path

\* glob.glob(str(instance_data_root) + "/*" + suffix), as a set.
Glob(suffix) == {PathOf(name) : name \in {n \in DOMAIN fs.images : EndsWith(n, suffix)}}

\* The orders in which a set of paths can be listed (glob.glob, list(set)).
Orders(S) ==
    {o \in [1..Cardinality(S) -> S] : \A i, j \in 1..Cardinality(S) : o[i] = o[j] => i = j}

\* Image.open(path): the picture a file holds.
OpenImage(files, path) == files[SplitLast(path, "/")]

\* ---------------------------------------------------------------- __init__

None == <<>>

Some(v) == <<v>>

\* Python's truth value of an Optional[str].
Truthy(opt) == opt # None /\ opt[1] # <<>>

NULL_TEMPLATE == <<<<"{", "}">>>>

\* TEMPLATE_MAP[use_template]; "null" is the template set in use here.
TEMPLATE_MAP(name) == NULL_TEMPLATE

NoDs ==
    [instance_images_path |-> <<>>, mask_path |-> <<>>, captions |-> <<>>,
     use_mask |-> FALSE, use_mask_captioned_data |-> FALSE,
     num_instance_images |-> 0, token_map |-> None, use_template |-> None,
     templates |-> <<>>, _length |-> 0, h_flip |-> FALSE,
     train_inpainting |-> FALSE, size |-> 0, error |-> ""]

NoScan == [idx |-> 0, stopped |-> FALSE, backfills |-> 0, written |-> {}]

NoItem ==
    [pc |-> "idle", index |-> 0, image_path |-> <<>>, caption |-> <<>>,
     mask_file |-> <<>>, text |-> <<>>, flip |-> FALSE, example |-> <<>>,
     before_flip |-> <<>>, image |-> NoImage, error |-> ""]

ConfigConflict_Dropped(c) == FALSE

\* The assert at lines 214-216.
ConfigConflict(c) == c.use_mask_captioned_data /\ Truthy(c.use_template)

\* idx = int(str(Path(f).stem).split(".")[0])
IdxOf(f) == IntOf(SplitFirst(Stem(f), "."))

\* The loop at lines 221-229 over src_imgs: the images whose mask exists, in
\* the order of src_imgs, and the mask paths appended with them.
ValidSrc(src_imgs) == SelectSeq(src_imgs, LAMBDA f : PathExists(MaskPath(IdxOf(f))))

MasksOf(images) == [i \in 1..Len(images) |-> MaskPath(IdxOf(images[i]))]

\* x.split("/")[-1].split(".")[0]
CaptionOf(x) == SplitFirst(SplitLast(x, "/"), ".")

\* Lines 234-243: the candidates of free discovery, as a set.
FreeCandidates ==
    ((Glob(JpgSuffix) \cup Glob(PngSuffix) \cup Glob(JpegSuffix)) \ Glob(MaskSuffix))
        \ {PathOf(<<"c", "a", "p", "t", "i", "o", "n", ".", "t", "x", "t">>)}

\* __init__ fails: the exception leaves the constructor.  The field error of
\* ds records which exception it was.
InitFails(kind) ==
    /\ pc' = "failed"
    /\ ds' = [ds EXCEPT !.error = kind]
    /\ UNCHANGED <<cfg, fs, scan, item, cut>>

Discovered_Unsorted(images, masks, captions) ==
    [NoDs EXCEPT !.size = cfg.size,
                 !.train_inpainting = cfg.train_inpainting,
                 !.instance_images_path = images,
                 !.mask_path = masks,
                 !.captions = captions,
                 !.use_mask = cfg.use_face_segmentation_condition
                                  \/ cfg.use_mask_captioned_data,
                 !.use_mask_captioned_data = cfg.use_mask_captioned_data]

\* The fields set at lines 200-205 and 254-257.
Discovered(images, masks, captions) ==
    [NoDs EXCEPT !.size = cfg.size,
                 !.train_inpainting = cfg.train_inpainting,
                 !.instance_images_path = Sorted(images),
                 !.mask_path = masks,
                 !.captions = captions,
                 !.use_mask = cfg.use_face_segmentation_condition
                                  \/ cfg.use_mask_captioned_data,
                 !.use_mask_captioned_data = cfg.use_mask_captioned_data]

\* Lines 200-257 of __init__: the checks, the discovery of the instance
\* images, the captions and the sort.
InitDiscover ==
    /\ pc = "init"
    /\ IF ~fs.root_exists
       THEN \* raise ValueError("Instance images root doesn't exists.")
            /\ io' = io \cup {"exists_root"}
            /\ InitFails("ValueError")
       ELSE IF ConfigConflict(cfg)
       THEN \* AssertionError: "Can't use both mask caption data and template."
            /\ io' = io \cup {"exists_root"}
            /\ InitFails("AssertionError")
       ELSE IF cfg.use_mask_captioned_data
       THEN \E src_imgs \in Orders(Glob(SrcSuffix)) :
              LET images == ValidSrc(src_imgs) IN
              IF fs.caption = None
              THEN \* open() raises FileNotFoundError
                   /\ io' = io \cup {"exists_root", "glob", "open_caption"}
                                \cup (IF src_imgs = <<>> THEN {} ELSE {"exists_mask"})
                   /\ InitFails("FileNotFoundError")
              ELSE IF images = <<>>
              THEN \* AssertionError: "No images found in the instance data root."
                   /\ io' = io \cup {"exists_root", "glob", "open_caption"}
                                \cup (IF src_imgs = <<>> THEN {} ELSE {"exists_mask"})
                   /\ InitFails("AssertionError")
              ELSE /\ io' = io \cup {"exists_root", "glob", "exists_mask", "open_caption"}
                   /\ ds' = Discovered(images, MasksOf(images), fs.caption[1])
                   /\ pc' = "scan"
                   /\ UNCHANGED <<cfg, fs, scan, item, cut>>
       ELSE \E images \in Orders(FreeCandidates) :
              IF images = <<>>
              THEN \* AssertionError: "No images found in the instance data root."
                   /\ io' = io \cup {"exists_root", "glob"}
                   /\ InitFails("AssertionError")
              ELSE /\ io' = io \cup {"exists_root", "glob"}
                   /\ ds' = Discovered(images, <<>>,
                                       [i \in 1..Len(images) |-> CaptionOf(images[i])])
                   /\ pc' = "scan"
                   /\ UNCHANGED <<cfg, fs, scan, item, cut>>

\* The pictures face_mask_google_mediapipe returns: one mask per image given,
\* in the order given.
FaceMaskOf(pat) == pat + 2

face_mask_google_mediapipe(images) == [i \in 1..Len(images) |-> FaceMaskOf(images[i])]

Backfill_FirstOnly(files, paths) ==
    LET masks == face_mask_google_mediapipe([i \in 1..Len(paths) |-> OpenImage(files, paths[i])])
    IN  [n \in (DOMAIN files) \cup {MaskName(0)} |->
            IF n = MaskName(0) THEN masks[1] ELSE files[n]]

\* Lines 276-283: the masks of all the instance images, each saved as
\* "{idx}.mask.png" with idx its position in masks.
Backfill(files, paths) ==
    LET masks == face_mask_google_mediapipe([i \in 1..Len(paths) |-> OpenImage(files, paths[i])])
        names == {MaskName(i - 1) : i \in 1..Len(masks)}
    IN  [n \in (DOMAIN files) \cup names |->
            IF n \in names
            THEN masks[CHOOSE i \in 1..Len(masks) : MaskName(i - 1) = n]
            ELSE files[n]]

\* One iteration of the loop at lines 261-285 (use_face_segmentation_condition).
InitScan ==
    /\ pc = "scan"
    /\ cfg.use_face_segmentation_condition
    /\ ~scan.stopped
    /\ scan.idx < Len(ds.instance_images_path)
    /\ IF ~PathExists(MaskPath(scan.idx))
       THEN /\ fs' = [fs EXCEPT !.images = Backfill(fs.images, ds.instance_images_path)]
            /\ io' = io \cup {"exists_mask", "open_image", "write_mask"}
            /\ scan' = [scan EXCEPT !.stopped = TRUE,
                                    !.backfills = @ + 1,
                                    !.written = @ \cup
                                        {MaskPath(i - 1) : i \in 1..Len(ds.instance_images_path)}]
       ELSE /\ io' = io \cup {"exists_mask"}
            /\ scan' = [scan EXCEPT !.idx = @ + 1]
            /\ UNCHANGED fs
    /\ UNCHANGED <<cfg, ds, pc, item, cut>>

\* Lines 287-288: the mask paths appended in face-segmentation mode.
FaceMaskPaths(n) == [i \in 1..n |-> MaskPath(i - 1)]

\* Lines 287-316: the rest of __init__, after the scan loop has ended.
InitFinish ==
    /\ pc = "scan"
    /\ \/ ~cfg.use_face_segmentation_condition
       \/ scan.stopped
       \/ scan.idx = Len(ds.instance_images_path)
    /\ ds' = [ds EXCEPT
                !.mask_path = IF cfg.use_face_segmentation_condition
                              THEN @ \o FaceMaskPaths(Len(ds.instance_images_path))
                              ELSE @,
                !.num_instance_images = Len(ds.instance_images_path),
                !.token_map = cfg.token_map,
                !.use_template = cfg.use_template,
                !.templates = IF cfg.use_template # None
                              THEN TEMPLATE_MAP(cfg.use_template[1]) ELSE <<>>,
                !._length = Len(ds.instance_images_path),
                !.h_flip = cfg.h_flip]
    /\ pc' = "ready"
    /\ UNCHANGED <<cfg, fs, io, scan, item, cut>>

\* -------------------------------------------------------------- __getitem__

\* self.image_transforms(image) for an RGB image: resize, centre crop,
\* ToTensor, Normalize give a 3 x size x size tensor of the picture.
TransformImage(pat, size) == ImageOf(pat, Channels, size, size)

\* self.image_transforms(Image.open(mask file)) * 0.5 + 1.0 for a one-channel
\* picture.  The values of this tensor are kept in halves: a pixel v of the
\* transformed picture is stored as 2 * (v * 0.5 + 1.0) = v + 2.
LoadMask(pat, size) ==
    Tensor(1, size, size,
           [p \in Pixels(1, size, size) |-> PatternPixel(pat, p[1], p[2], p[3]) + 2])

\* Lines 350-352: for token, value in self.token_map.items():
\* text = text.replace(token, value).  The map is the sequence of its
\* <<token, value>> pairs in insertion order.
RECURSIVE ApplyTokenMap_Reversed(_, _)
ApplyTokenMap_Reversed(text, items) ==
    IF items = <<>> THEN text
    ELSE Replace(ApplyTokenMap_Reversed(text, Tail(items)), items[1][1], items[1][2])

RECURSIVE ApplyTokenMap(_, _)
ApplyTokenMap(text, items) ==
    IF items = <<>> THEN text
    ELSE ApplyTokenMap(Replace(text, items[1][1], items[1][2]), Tail(items))

\* template.format(input_tok) for a template with one "{}".
Format(template, input_tok) == Replace(template, <<"{", "}">>, input_tok)

\* The keys of the example that lines 365-370 flip.
FlippedKeys == {"instance_images", "mask"}

\* hflip applied to the tensors of the example that the code flips.
FlipExample(example) ==
    [k \in DOMAIN example |->
        IF k \in FlippedKeys THEN HFlip(example[k]) ELSE example[k]]

Position_Clamped(index) ==
    IF index < ds.num_instance_images THEN index + 1 ELSE ds.num_instance_images

\* The position in the lists that a lookup of index uses.
Position(index) == (index % ds.num_instance_images) + 1

\* Lines 321-334: the instance image is opened and transformed; with
\* train_inpainting, _generate_random_mask is entered.
GetItemBegin ==
    /\ pc = "ready"
    /\ item.pc \in {"idle", "done", "error"}
    /\ \E index \in 0..MaxIndex :
         LET path == ds.instance_images_path[Position(index)]
             image == TransformImage(OpenImage(fs.images, path), ds.size)
         IN  /\ item' = [NoItem EXCEPT !.pc = IF ds.train_inpainting THEN "cutout" ELSE "begun",
                                       !.index = index,
                                       !.image_path = path,
                                       !.image = image]
             /\ cut' = IF ds.train_inpainting THEN CutEnter(image) ELSE CutIdle
    /\ UNCHANGED <<cfg, fs, ds, pc, io, scan>>

\* The ValueError of _get_cutout_holes leaves __getitem__.
GetItemRaise ==
    /\ item.pc = "cutout"
    /\ cut.pc = "error"
    /\ item' = [item EXCEPT !.pc = "error", !.error = "ValueError"]
    /\ UNCHANGED <<cfg, fs, ds, pc, io, scan, cut>>

ItemError(kind) == [item EXCEPT !.pc = "error", !.error = kind]

\* The example before the flip: the image, the inpainting mask and masked
\* image when train_inpainting, the loaded mask when use_mask.
ExampleOf(image, mask_pat) ==
    [k \in {"instance_images"}
           \cup (IF ds.train_inpainting
                 THEN {"instance_masks", "instance_masked_images"} ELSE {})
           \cup (IF ds.use_mask THEN {"mask"} ELSE {}) |->
        CASE k = "instance_images" -> ToTensorOf(image)
          [] k = "instance_masks" -> cut.mask
          [] k = "instance_masked_images" -> cut.masked_image
          [] k = "mask" -> LoadMask(mask_pat, ds.size)]

\* Lines 342-379: the prompt, the loaded mask, the flip.
GetItemFinish ==
    /\ \/ item.pc = "begun"
       \/ item.pc = "cutout" /\ cut.pc = "done"
    /\ LET pos == Position(item.index)
           mask_file == IF ds.use_mask THEN ds.mask_path[pos] ELSE <<>>
       IN
       IF Truthy(ds.use_template) /\ ds.token_map = None
       THEN item' = ItemError("AssertionError")
       ELSE IF Truthy(ds.use_template) /\ ds.token_map[1] = <<>>
       THEN item' = ItemError("IndexError")
       ELSE IF ~Truthy(ds.use_template) /\ pos > Len(ds.captions)
       THEN item' = ItemError("IndexError")
       ELSE IF ds.use_mask /\ ~PathExists(mask_file)
       THEN item' = ItemError("FileNotFoundError")
       ELSE \E template \in (IF Truthy(ds.use_template)
                             THEN {ds.templates[i] : i \in 1..Len(ds.templates)}
                             ELSE {<<>>}),
               flip \in (IF ds.h_flip THEN BOOLEAN ELSE {FALSE}) :
              LET caption == IF Truthy(ds.use_template) THEN <<>>
                             ELSE Strip(ds.captions[pos])
                  text == IF Truthy(ds.use_template)
                          THEN Format(template, ds.token_map[1][1][2])
                          ELSE IF ds.token_map = None THEN caption
                          ELSE ApplyTokenMap(caption, ds.token_map[1])
                  example == ExampleOf(item.image,
                                       IF ds.use_mask THEN OpenImage(fs.images, mask_file)
                                       ELSE 0)
              IN  item' = [item EXCEPT !.pc = "done",
                                       !.caption = caption,
                                       !.text = text,
                                       !.mask_file = mask_file,
                                       !.flip = flip,
                                       !.before_flip = example,
                                       !.example = IF flip THEN FlipExample(example)
                                                   ELSE example]
    /\ UNCHANGED <<cfg, fs, ds, pc, io, scan, cut>>

\* ------------------------------------------------------- specifications

\* The arguments of the constructor.
Config(umc, template, face, token_map, size, h_flip, inpainting) ==
    [use_mask_captioned_data |-> umc, use_template |-> template,
     use_face_segmentation_condition |-> face, token_map |-> token_map,
     size |-> size, h_flip |-> h_flip, train_inpainting |-> inpainting]

\* The picture a file holds before any mask is written.
InitialPattern(name) == 1 + (Ord(name[1]) % 2)

Files(names) == [n \in names |-> InitialPattern(n)]

\* The state before the constructor runs.
Before(c, root_exists, names, caption) ==
    /\ cfg = c
    /\ fs = [root_exists |-> root_exists, images |-> Files(names), caption |-> caption,
             at_start |-> names]
    /\ ds = NoDs
    /\ pc = "init"
    /\ io = {}
    /\ scan = NoScan
    /\ item = NoItem
    /\ cut = CutIdle

\* The files that may lie under the root: numbered images and masks, and one
\* picture that is not numbered.
Universe ==
    {SrcName(i) : i \in 0..MaxIdx} \cup {MaskName(i) : i \in 0..MaxIdx} \cup {<<"b">> \o PngSuffix}

\* The caption files: none, one line per numbered image, a single line.
Line(i) == <<"c">> \o StrOf(i) \o <<" ", "\n">>

CaptionFiles ==
    {None, Some([i \in 1..(MaxIdx + 1) |-> Line(i - 1)]), Some(<<Line(0)>>)}

SubjectMap == Some(<<<< <<"A">>, <<"x">> >>>>)

\* Construction over every filesystem within the bounds, and lookups without
\* augmentation (no flip, no inpainting) on 2 x 2 images.
Init ==
    \E umc \in BOOLEAN, face \in BOOLEAN, template \in {None, Some(<<"n", "u", "l", "l">>)},
       root_exists \in BOOLEAN, names \in SUBSET Universe, caption \in CaptionFiles :
        /\ ~root_exists => names = {} /\ caption = None
        /\ Before(Config(umc, template, face,
                         IF template = None THEN None ELSE SubjectMap, 2, FALSE, FALSE),
                  root_exists, names, caption)

Next == InitDiscover \/ InitScan \/ InitFinish \/ GetItemBegin \/ GetItemFinish

Spec == Init /\ [][Next]_vars

\* Lookups with the augmentations: one numbered image with its mask and its
\* caption, images of 17 x 17 pixels (one more than the smallest hole), with
\* and without masks, inpainting and flip.
ItemSize == min_height + 1

InitItem ==
    \E umc \in BOOLEAN, h_flip \in BOOLEAN, inpainting \in BOOLEAN :
        Before(Config(umc, None, FALSE, None, ItemSize, h_flip, inpainting),
               TRUE, {SrcName(0), MaskName(0)}, Some(<<Line(0)>>))

NextItem ==
    \/ InitDiscover \/ InitFinish \/ GetItemBegin
    \/ CutoutCount \/ CutoutHoleRaises \/ CutoutHole \/ CutoutFinish
    \/ GetItemRaise \/ GetItemFinish

SpecItem == InitItem /\ [][NextItem]_vars

\* The prompt: a caption drawn from the strings over "A", "B" and " " of
\* bounded length, and "A and B".  It is the one line of caption.txt beside a
\* numbered image with its mask (mask-captioned mode), or the name of the one
\* picture (free discovery).  No token map, or one of bounded size with
\* distinct non-empty keys.
RECURSIVE StringsUpTo(_, _)
StringsUpTo(chars, n) ==
    IF n = 0 THEN {<<>>}
    ELSE LET shorter == StringsUpTo(chars, n - 1)
         IN  shorter \cup {<<c>> \o t : c \in chars, t \in shorter}

CaptionTexts ==
    StringsUpTo({"A", "B", " "}, MaxCaption) \cup {<<"A", " ", "a", "n", "d", " ", "B">>}

TokenKeys == {<<"A">>, <<"B">>, <<"A", "A">>}

TokenValues == {<<"x">>, <<"y">>, <<"B">>}

RECURSIVE TokenItems(_)
TokenItems(n) ==
    IF n = 0 THEN {<<>>}
    ELSE LET shorter == TokenItems(n - 1)
         IN  shorter \cup
             {Append(m, <<k, v>>) : m \in {t \in shorter : Len(t) = n - 1},
                                    k \in TokenKeys, v \in TokenValues}

DistinctKeys(items) ==
    \A i, j \in 1..Len(items) : items[i][1] = items[j][1] => i = j

TokenMaps == {None} \cup {Some(m) : m \in {t \in TokenItems(MaxTokens) : DistinctKeys(t)}}

InitPrompt ==
    \E t \in CaptionTexts, token_map \in TokenMaps, umc \in BOOLEAN :
        /\ umc \/ t # <<>>
        /\ Before(Config(umc, None, FALSE, token_map, 2, FALSE, FALSE),
                  TRUE, IF umc THEN {SrcName(0), MaskName(0)} ELSE {t \o JpgSuffix},
                  Some(<<t \o <<"\n">> >>))

NextPrompt == InitDiscover \/ InitFinish \/ GetItemBegin \/ GetItemFinish

SpecPrompt == InitPrompt /\ [][NextPrompt]_vars

\* ------------------------------------------------------------ properties

FreeDiscovery ==
    ~cfg.use_mask_captioned_data /\ cfg.use_template = None /\ cfg.token_map = None

\* C2: in free-discovery mode the caption resolved at a lookup is the
\* filename stem of the image that the lookup loads.
C2_CaptionIsStemOfLoadedImage ==
    (FreeDiscovery /\ item.pc = "done") => item.caption = CaptionOf(item.image_path)

\* Mask-captioned data and a template name are both requested.
BothRequested == cfg.use_mask_captioned_data /\ cfg.use_template # None

\* C3 as stated: with both use_mask_captioned_data and a template the
\* constructor fails with the configuration error, whatever the filesystem
\* holds, and before any filesystem operation.
C3_FailsBeforeAnyIO ==
    (BothRequested /\ pc # "init") =>
        /\ pc = "failed"
        /\ ds.error = "AssertionError"
        /\ io = {}

\* C3 as amended: the constructor fails, and the one filesystem operation
\* before the failure is the existence check of the root; the failure is the
\* configuration error when the root exists and the missing-root error when
\* it does not.
C3_FailsAfterRootCheckOnly ==
    (BothRequested /\ pc # "init") =>
        /\ pc = "failed"
        /\ io = {"exists_root"}
        /\ ds.error = IF fs.root_exists THEN "AssertionError" ELSE "ValueError"
        /\ DOMAIN fs.images = fs.at_start

C3_Witness ==
    /\ BothRequested
    /\ pc = "failed"
    /\ fs.root_exists
    /\ fs.at_start # {}
    /\ fs.caption # None

\* The instances the constructor validates, counted on the files present
\* before it ran: in mask-captioned mode the numbered images whose mask
\* exists, otherwise the pictures that are not masks.
ValidatedAtStart ==
    IF cfg.use_mask_captioned_data
    THEN {n \in fs.at_start : EndsWith(n, SrcSuffix)
                              /\ MaskName(IntOf(SplitFirst(n, "."))) \in fs.at_start}
    ELSE {n \in fs.at_start : ~EndsWith(n, MaskSuffix)}

\* What a lookup selects, read at position j (from 0) without any wrapping.
SelectionAt(j) ==
    [image_path |-> ds.instance_images_path[j + 1],
     caption |-> IF Truthy(ds.use_template) THEN <<>> ELSE Strip(ds.captions[j + 1]),
     mask_file |-> IF ds.use_mask THEN ds.mask_path[j + 1] ELSE <<>>]

SelectionOf(it) ==
    [image_path |-> it.image_path, caption |-> it.caption, mask_file |-> it.mask_file]

\* C6: the length is the number of validated instances, and a lookup of k
\* selects the image path, caption and mask path of position k mod N, as the
\* lookup of k mod N does.
C6_LengthAndWrap ==
    pc = "ready" =>
        /\ ds._length = Cardinality(ValidatedAtStart)
        /\ ds._length = ds.num_instance_images
        /\ item.pc = "done" =>
              /\ (item.index % ds._length) \in 0..(ds._length - 1)
              /\ SelectionOf(item) = SelectionAt(item.index % ds._length)

C6_Witness ==
    /\ pc = "ready"
    /\ item.pc = "done"
    /\ ds._length >= 2
    /\ item.index > ds._length
    /\ ds.use_mask
    /\ item.mask_file # <<>>

\* The position (from 0) of the loaded image in the sorted list of the
\* instance images.
SortedPosition(path) ==
    LET sorted == Sorted(ds.instance_images_path)
    IN  (CHOOSE i \in 1..Len(sorted) : sorted[i] = path) - 1

\* C7: in mask-captioned mode the caption used for the instance at sorted
\* position i is line i of caption.txt, stripped, also when instances were
\* skipped for want of a mask.
C7_CaptionIsLineOfSortedPosition ==
    (ds.use_mask_captioned_data /\ item.pc = "done") =>
        LET i == SortedPosition(item.image_path)
        IN  /\ i < Len(fs.caption[1])
            /\ item.caption = Strip(fs.caption[1][i + 1])

\* A lookup of the second instance of a dataset from which a numbered image
\* was skipped because its mask is missing.
C7_Witness ==
    /\ ds.use_mask_captioned_data
    /\ item.pc = "done"
    /\ \E n \in fs.at_start : EndsWith(n, SrcSuffix) /\ n \notin ValidatedAtStart
    /\ IdxOf(item.image_path) # SortedPosition(item.image_path)
    /\ item.caption # <<>>

\* The mask files face-segmentation mode expects: one per instance image.
ExpectedMasks == {MaskName(i - 1) : i \in 1..Len(ds.instance_images_path)}

\* C9: in face-segmentation mode the backfill runs at most once and only
\* when an expected mask file is missing; it then writes the mask of every
\* instance image, in sorted order, and the scan stops at the missing file;
\* without a missing file nothing is written; on READY every expected mask
\* file exists.
C9_BackfillOnce ==
    /\ scan.backfills <= 1
    /\ scan.backfills = 0 =>
          /\ scan.written = {}
          /\ DOMAIN fs.images = fs.at_start
          /\ "write_mask" \notin io
    /\ scan.backfills = 1 =>
          /\ cfg.use_face_segmentation_condition
          /\ scan.stopped
          /\ MaskName(scan.idx) \in ExpectedMasks \ fs.at_start
          /\ \A j \in 0..(scan.idx - 1) : MaskName(j) \in fs.at_start
          /\ scan.written = {PathOf(n) : n \in ExpectedMasks}
          /\ DOMAIN fs.images = fs.at_start \cup ExpectedMasks
          /\ \A i \in 1..Len(ds.instance_images_path) :
                fs.images[MaskName(i - 1)] =
                    FaceMaskOf(Files(fs.at_start)[SplitLast(ds.instance_images_path[i], "/")])
    /\ (pc = "ready" /\ cfg.use_face_segmentation_condition) =>
          /\ \A n \in ExpectedMasks : n \in DOMAIN fs.images
          /\ scan.backfills = 0 <=> ExpectedMasks \subseteq fs.at_start

\* A backfill over two instance images of which only the second lacked its
\* mask, and the constructor has finished.
C9_Witness ==
    /\ pc = "ready"
    /\ scan.backfills = 1
    /\ scan.idx = 1
    /\ Len(ds.instance_images_path) >= 2

\* C10: with masks in use, mask_path has as many entries as
\* instance_images_path, and in mask-captioned mode the mask at each position
\* is the one numbered like the image at that position.
C10_MasksAligned ==
    (pc = "ready" /\ ds.use_mask) =>
        /\ Len(ds.mask_path) = Len(ds.instance_images_path)
        /\ ds.use_mask_captioned_data =>
              \A i \in 1..Len(ds.instance_images_path) :
                  i <= Len(ds.mask_path)
                  /\ ds.mask_path[i] = MaskPath(IdxOf(ds.instance_images_path[i]))

\* The starts of the occurrences of old in s.
Occurrences(s, old) ==
    {p \in 1..(Len(s) - Len(old) + 1) : SubSeq(s, p, p + Len(old) - 1) = old}

Overlapped(P, old, i) == \E q \in P : q < i /\ i < q + Len(old)

\* The occurrences that are replaced: each one that no replaced occurrence
\* to its left overlaps.
Replaced(s, old) ==
    CHOOSE P \in SUBSET Occurrences(s, old) :
        \A p \in Occurrences(s, old) : (p \in P) <=> ~Overlapped(P, old, p)

RECURSIVE Join(_, _)
Join(pieces, n) == IF n = 0 THEN <<>> ELSE Join(pieces, n - 1) \o pieces[n]

\* s with every literal occurrence of old replaced by new.
EveryOccurrenceReplaced(s, old, new) ==
    LET P == Replaced(s, old)
    IN  Join([i \in 1..Len(s) |->
                 IF i \in P THEN new
                 ELSE IF Overlapped(P, old, i) THEN <<>> ELSE <<s[i]>>], Len(s))

RECURSIVE KeysInInsertionOrder(_, _)
KeysInInsertionOrder(s, items) ==
    IF items = <<>> THEN s
    ELSE KeysInInsertionOrder(EveryOccurrenceReplaced(s, items[1][1], items[1][2]),
                              Tail(items))

\* The stored caption of the instance a lookup uses, before it is stripped.
StoredCaption ==
    IF cfg.use_mask_captioned_data
    THEN fs.caption[1][(item.index % ds._length) + 1]
    ELSE CHOOSE t \in CaptionTexts : DOMAIN fs.images = {t \o JpgSuffix}

\* C8: without a template the prompt is the stripped stored caption in which
\* every literal occurrence of every key of the token map is replaced by its
\* value, the keys applied in insertion order; without a token map it is the
\* stripped caption.
C8_PromptIsCaptionWithTokensReplaced ==
    (item.pc = "done" /\ cfg.use_template = None) =>
        item.text = IF cfg.token_map = None THEN Strip(StoredCaption)
                    ELSE KeysInInsertionOrder(Strip(StoredCaption), cfg.token_map[1])

\* The example of the claim: {"A": "x", "B": "y"} on "A and B" gives
\* "x and y".
C8_Witness ==
    /\ item.pc = "done"
    /\ cfg.token_map = Some(<< <<<<"A">>, <<"x">>>>, <<<<"B">>, <<"y">>>> >>)
    /\ Strip(StoredCaption) = <<"A", " ", "a", "n", "d", " ", "B">>
    /\ item.text = <<"x", " ", "a", "n", "d", " ", "y">>

\* C1: with h_flip, either every image-aligned tensor of the returned record
\* is flipped (the image, the loaded mask, the inpainting mask and masked
\* image) or none is.
C1_AllFlippedOrNone ==
    (item.pc = "done" /\ ds.h_flip) =>
        \/ \A k \in DOMAIN item.example : item.example[k] = HFlip(item.before_flip[k])
        \/ \A k \in DOMAIN item.example : item.example[k] = item.before_flip[k]

\* C4: the mask returned by _generate_random_mask holds only 0 and 1, has
\* one channel and the image's height and width, and the masked image is 0
\* where the mask is at least 0.5 and the source image elsewhere.
C4_MaskedImageConsistent ==
    cut.pc = "done" =>
        LET image == ToTensorOf(cut.image) IN
        /\ cut.mask.c = 1 /\ cut.mask.h = image.h /\ cut.mask.w = image.w
        /\ DOMAIN cut.mask.at = Pixels(1, image.h, image.w)
        /\ \A p \in DOMAIN cut.mask.at : cut.mask.at[p] \in {0, 1}
        /\ DOMAIN cut.masked_image.at = DOMAIN image.at
        /\ \A p \in DOMAIN image.at :
              cut.masked_image.at[p] =
                  IF 2 * cut.mask.at[<<1, p[2], p[3]>>] >= 1 THEN 0 ELSE image.at[p]

\* A returned mask that is partly 0 and partly 1, over pixels of the source
\* that are not 0, without the full-mask override.
C4_Witness ==
    /\ cut.pc = "done"
    /\ ~cut.override
    /\ \E p, q \in DOMAIN cut.masked_image.at :
          /\ cut.mask.at[<<1, p[2], p[3]>>] = 1
          /\ cut.mask.at[<<1, q[2], q[3]>>] = 0
          /\ ToTensorOf(cut.image).at[p] # 0
          /\ cut.masked_image.at[q] # 0

\* C5: for an image at least 16 high and 16 wide the hole generation does
\* not fail, it runs at most 32 iterations, and each hole lies within the
\* image with sides in [16, 128].
C5_HolesFitFromMinimumSize ==
    (cut.height >= min_height /\ cut.width >= min_width) =>
        /\ cut.pc # "error"
        /\ cut.remaining <= max_holes
        /\ cut.hole # <<>> =>
              /\ 0 <= cut.hole[1] /\ cut.hole[1] < cut.hole[3] /\ cut.hole[3] <= cut.width
              /\ 0 <= cut.hole[2] /\ cut.hole[2] < cut.hole[4] /\ cut.hole[4] <= cut.height
              /\ (cut.hole[3] - cut.hole[1]) \in min_width..max_width
              /\ (cut.hole[4] - cut.hole[2]) \in min_height..max_height

====
